---- MODULE Spec2Model ----
(***************************************************************************)
(* Jalali <-> Gregorian conversion of src/src/jalali_extension.cpp.        *)
(*                                                                         *)
(* Strings are sequences of one-character strings.  A timestamp is the     *)
(* record of the fields it is built from (Date::FromDate, Time::FromTime,  *)
(* Timestamp::FromDatetime) and decomposed into (Date::Convert,            *)
(* Time::Convert); the time fields of every input stay inside              *)
(* 0..23 / 0..59 / 0..59, where the composition carries nothing into the   *)
(* date.  All int values stay far below 2^31 in the ranges explored, so    *)
(* the arithmetic is exact; division and remainder truncate toward zero as *)
(* in C++.                                                                 *)
(***************************************************************************)
EXTENDS Integers, Sequences, FiniteSets, TLC

VARIABLES pc, jalali_datetime, end_of_day, gregorian_timestamp, j2g, g2j

vars == <<pc, jalali_datetime, end_of_day, gregorian_timestamp, j2g, g2j>>

----------------------------------------------------------------------------
(* C++ integer division and remainder (truncation toward zero), b > 0.     *)

CDiv(a, b) == IF a >= 0 THEN a \div b ELSE -((-a) \div b)

CMod(a, b) == a - b * CDiv(a, b)

Min(a, b) == IF a <= b THEN a ELSE b

----------------------------------------------------------------------------
(* Characters, std::stoi, snprintf's %0Nd and StringUtil::Split.           *)

DigitChars == <<"0", "1", "2", "3", "4", "5", "6", "7", "8", "9">>

IsDigit(c) == \E i \in 1..10 : DigitChars[i] = c

DigitVal(c) == (CHOOSE i \in 1..10 : DigitChars[i] = c) - 1

(* INT_MAX; TLC's own integers are 32 bits wide as well.                   *)
IntMax == 2147483647

RECURSIVE DigitPrefixLen(_)
DigitPrefixLen(s) ==
    IF s = <<>> \/ ~IsDigit(Head(s)) THEN 0 ELSE 1 + DigitPrefixLen(Tail(s))

(* The value of the first n characters of s, or -1 once it exceeds int.    *)
RECURSIVE DigitsValue(_, _)
DigitsValue(s, n) ==
    IF n = 0 THEN 0
    ELSE LET acc == DigitsValue(s, n - 1)
             d   == DigitVal(s[n])
         IN  IF acc < 0 \/ acc > (IntMax - d) \div 10 THEN -1
             ELSE 10 * acc + d

(* std::stoi: an optional sign, then the longest run of digits; whatever   *)
(* follows is ignored.  No digit: std::invalid_argument; a value outside   *)
(* int: std::out_of_range.  Either way the caller sees a parsing failure.  *)
(* (INT_MIN itself is taken as out of range; no input comes near it.)      *)
Stoi(s) ==
    LET signed == s # <<>> /\ Head(s) \in {"-", "+"}
        body   == IF signed THEN Tail(s) ELSE s
        n      == DigitPrefixLen(body)
        mag    == DigitsValue(body, n)
    IN  IF n = 0 \/ mag < 0
        THEN [ok |-> FALSE, val |-> 0]
        ELSE [ok |-> TRUE, val |-> IF signed /\ Head(s) = "-" THEN -mag ELSE mag]

RECURSIVE AbsDigits(_)
AbsDigits(n) ==
    IF n < 10 THEN <<DigitChars[n + 1]>>
    ELSE AbsDigits(n \div 10) \o <<DigitChars[(n % 10) + 1]>>

RECURSIVE ZeroPad(_, _)
ZeroPad(s, w) == IF Len(s) >= w THEN s ELSE ZeroPad(<<"0">> \o s, w)

(* printf's %0wd: the sign counts towards the width.                       *)
Fmt(n, w) ==
    IF n < 0 THEN <<"-">> \o ZeroPad(AbsDigits(-n), w - 1)
    ELSE ZeroPad(AbsDigits(n), w)

(* The pieces of s between delimiters, empty pieces included.              *)
RECURSIVE Pieces(_, _, _)
Pieces(s, delimiter, cur) ==
    IF s = <<>> THEN <<cur>>
    ELSE IF Head(s) = delimiter
         THEN <<cur>> \o Pieces(Tail(s), delimiter, <<>>)
         ELSE Pieces(Tail(s), delimiter, Append(cur, Head(s)))

(* StringUtil::Split(str, char) reads with getline until it fails: a final *)
(* empty piece (the empty string, or text ending in the delimiter) is not  *)
(* returned.                                                               *)
Split(s, delimiter) ==
    LET p == Pieces(s, delimiter, <<>>)
    IN  IF p[Len(p)] = <<>> THEN SubSeq(p, 1, Len(p) - 1) ELSE p

----------------------------------------------------------------------------
(* Gregorian helpers.                                                      *)

IsLeapYear(year) ==
    (CMod(year, 400) = 0) \/ ((CMod(year, 100) # 0) /\ (CMod(year, 4) = 0))


(* Date::IsLeapYear, used for the February entry of g_days_in_month.       *)
DateIsLeapYear(year) ==
    CMod(year, 4) = 0 /\ (CMod(year, 100) # 0 \/ CMod(year, 400) = 0)

(* g_days_in_month[i], i = 0..11, of GregorianToJalali.                    *)
GDaysInMonth(gy, i) ==
    IF i = 1 THEN (IF DateIsLeapYear(gy) THEN 29 ELSE 28)
    ELSE IF i \in {3, 5, 8, 10} THEN 30 ELSE 31

(* Date::FromDate accepts a (year, month, day) only when it is a date of   *)
(* the calendar; anything else is refused with a conversion error.         *)
DateIsValid(gy, gm, gd) ==
    gm \in 1..12 /\ gd >= 1 /\ gd <= GDaysInMonth(gy, gm - 1)

----------------------------------------------------------------------------
(* JalaliToGregorian.                                                      *)

RECURSIVE JalaliMonthSum(_, _)
JalaliMonthSum(i, jm) ==
    IF i >= jm THEN 0
    ELSE (IF i <= 6 THEN 31 ELSE 30) + JalaliMonthSum(i + 1, jm)

(* j_day_no of the parsed fields.                                          *)
JalaliDayNo(year, jm, jd) ==
    LET jy == year - 979
    IN  365 * jy + CDiv(jy, 33) * 8 + CDiv(CMod(jy, 33) + 3, 4)
        + JalaliMonthSum(1, jm) + (jd - 1)

(* MonthDays with August taken for a 30-day month (gm > 8 for gm >= 8).    *)
MonthDaysAugustShort(gm, leap) ==
    IF gm = 2 THEN (IF leap THEN 29 ELSE 28)
    ELSE IF gm <= 7 /\ CMod(gm, 2) = 1 THEN 31
    ELSE IF gm > 8 /\ CMod(gm, 2) = 0 THEN 31
    ELSE 30

MonthDays(gm, leap) ==
    IF gm = 2 THEN (IF leap THEN 29 ELSE 28)
    ELSE IF gm <= 7 /\ CMod(gm, 2) = 1 THEN 31
    ELSE IF gm >= 8 /\ CMod(gm, 2) = 0 THEN 31
    ELSE 30

(* while (true) { ... if (g_day_no < month_days) break; ... gm++; }        *)
RECURSIVE MonthWalk(_, _, _)
MonthWalk(gm, g_day_no, leap) ==
    IF g_day_no < MonthDays(gm, leap) THEN [gm |-> gm, g_day_no |-> g_day_no]
    ELSE MonthWalk(gm + 1, g_day_no - MonthDays(gm, leap), leap)

(* The 100-year step: taken only from day 36525 of the 400-year cycle on.  *)
CenturyStep(gy, g_day_no) ==
    IF g_day_no >= 36525
    THEN LET d1 == g_day_no - 1
             y1 == gy + 100 * CDiv(d1, 36524)
             d2 == CMod(d1, 36524)
         IN  IF d2 >= 365
             THEN [gy |-> y1, g_day_no |-> d2 + 1, leap |-> TRUE]
             ELSE [gy |-> y1, g_day_no |-> d2, leap |-> FALSE]
    ELSE [gy |-> gy, g_day_no |-> g_day_no, leap |-> TRUE]

(* The 4-year and 1-year steps.                                            *)
YearStep(gy, g_day_no, leap) ==
    LET y1 == gy + 4 * CDiv(g_day_no, 1461)
        d1 == CMod(g_day_no, 1461)
    IN  IF d1 >= 366
        THEN [gy |-> y1 + CDiv(d1 - 1, 365), g_day_no |-> CMod(d1 - 1, 365),
              leap |-> FALSE]
        ELSE [gy |-> y1, g_day_no |-> d1, leap |-> leap]

(* (gy, gm, gd) and the leap flag of a day number counted from 1600-01-01. *)
GregorianFromDayNo(g_day_no) ==
    LET c == CenturyStep(1600 + 400 * CDiv(g_day_no, 146097),
                         CMod(g_day_no, 146097))
        y == YearStep(c.gy, c.g_day_no, c.leap)
        w == MonthWalk(1, y.g_day_no, y.leap)
    IN  [gy |-> y.gy, gm |-> w.gm, gd |-> w.g_day_no + 1, leap |-> y.leap]

(* The third time field is read only when there are exactly three.         *)
ReadsSecond(n_time_parts) == n_time_parts = 3

(* hour, minute, second as parsed from datetime_parts (before the          *)
(* end_of_day override); ok is FALSE when std::stoi throws.                *)
ParseTime(datetime_parts) ==
    LET none == [ok |-> TRUE, hour |-> 0, minute |-> 0, second |-> 0]
    IN  IF Len(datetime_parts) > 1
        THEN LET time_parts == Split(datetime_parts[2], ":")
             IN  IF Len(time_parts) >= 2
                 THEN LET h  == Stoi(time_parts[1])
                          mi == Stoi(time_parts[2])
                          se == IF ReadsSecond(Len(time_parts))
                                THEN Stoi(time_parts[3])
                                ELSE [ok |-> TRUE, val |-> 0]
                      IN  [ok |-> h.ok /\ mi.ok /\ se.ok, hour |-> h.val,
                           minute |-> mi.val, second |-> se.val]
                 ELSE none
        ELSE none

(* EndOfDayOverride applied only when no time was parsed.                  *)
EndOfDayOverrideUnlessParsed(t, eod) ==
    IF eod /\ t.hour = 0 /\ t.minute = 0 /\ t.second = 0
    THEN [ok |-> TRUE, hour |-> 23, minute |-> 59, second |-> 59]
    ELSE t

(* if (end_of_day) { hour = 23; minute = 59; second = 59; }                *)
EndOfDayOverride(t, eod) ==
    IF eod THEN [ok |-> TRUE, hour |-> 23, minute |-> 59, second |-> 59]
    ELSE t

(* The call's outcome: how it ended and the locals it ended with.          *)
J2GFrame(kind, g_day_no, g, t) ==
    [kind |-> kind, g_day_no |-> g_day_no, gy |-> g.gy, gm |-> g.gm,
     gd |-> g.gd, leap |-> g.leap, hour |-> t.hour, minute |-> t.minute,
     second |-> t.second]

NoDate == [gy |-> 0, gm |-> 0, gd |-> 0, leap |-> FALSE]

NoTime == [ok |-> TRUE, hour |-> 0, minute |-> 0, second |-> 0]

J2GError(kind) == J2GFrame(kind, 0, NoDate, NoTime)

(* datetime_parts[0] of an empty vector: duckdb::vector checks the index   *)
(* and throws an internal error; a build without that check reads outside  *)
(* the vector and the process dies.                                        *)
EmptyVectorOutcomes == {J2GError("InternalError"), J2GError("Crash")}

(* The set of outcomes of JalaliToGregorian(jalali_datetime, end_of_day):  *)
(* one outcome, except where the code indexes an empty vector.             *)
JalaliToGregorian(datetime_str, eod) ==
    LET datetime_parts == Split(datetime_str, " ")
    IN  IF datetime_parts = <<>> THEN EmptyVectorOutcomes
        ELSE
        LET date_parts == Split(datetime_parts[1], "-")
        IN  IF Len(date_parts) # 3 THEN {J2GError("FormatError")}
            ELSE
            LET y == Stoi(date_parts[1])
                m == Stoi(date_parts[2])
                d == Stoi(date_parts[3])
            IN  IF ~(y.ok /\ m.ok /\ d.ok) THEN {J2GError("ParseError")}
                ELSE
                LET g_day_no == JalaliDayNo(y.val, m.val, d.val) + 79
                    g == GregorianFromDayNo(g_day_no)
                    p == ParseTime(datetime_parts)
                    t == EndOfDayOverride(p, eod)
                IN  IF ~p.ok THEN {J2GError("ParseError")}
                    ELSE IF ~DateIsValid(g.gy, g.gm, g.gd)
                    THEN {J2GFrame("DateOutOfRange", g_day_no, g, t)}
                    ELSE {J2GFrame("ok", g_day_no, g, t)}

(* The timestamp a successful call returns.                                *)
Timestamp(f) ==
    [year |-> f.gy, month |-> f.gm, day |-> f.gd, hour |-> f.hour,
     minute |-> f.minute, second |-> f.second, micros |-> 0]

----------------------------------------------------------------------------
(* GregorianToJalali.                                                      *)

RECURSIVE GMonthSum(_, _, _)
GMonthSum(gy, i, gm2) ==
    IF i >= gm2 THEN 0 ELSE GDaysInMonth(gy, i) + GMonthSum(gy, i + 1, gm2)

(* g_day_no of a Gregorian date, counted from 1600-01-01.                  *)
GregorianDayNo(gy, gm, gd) ==
    LET gy2 == gy - 1600
    IN  365 * gy2 + CDiv(gy2 + 3, 4) - CDiv(gy2 + 99, 100)
        + CDiv(gy2 + 399, 400) + GMonthSum(gy, 0, gm - 1) + (gd - 1)

(* JDaysInMonth with the seventh month given 31 days (i <= 6 for i <= 5).  *)
JDaysInMonthSevenLong(i) == IF i <= 6 THEN 31 ELSE IF i <= 10 THEN 30 ELSE 29

(* j_days_in_month[i], i = 0..11.                                          *)
JDaysInMonth(i) == IF i <= 5 THEN 31 ELSE IF i <= 10 THEN 30 ELSE 29

(* while (i < 11 && j_day_no >= j_days_in_month[i]) { ... ++i; }           *)
RECURSIVE JalaliMonthWalk(_, _)
JalaliMonthWalk(i, j_day_no) ==
    IF i < 11 /\ j_day_no >= JDaysInMonth(i)
    THEN JalaliMonthWalk(i + 1, j_day_no - JDaysInMonth(i))
    ELSE [i |-> i, j_day_no |-> j_day_no]

(* The day number on which the Jalali count starts.                        *)
JalaliOrigin(g_day_no) == g_day_no - 79

(* (jy, jm, jd) of a day number counted from 1600-01-01.                   *)
JalaliFromDayNo(g_day_no) ==
    LET j0   == JalaliOrigin(g_day_no)
        j_np == CDiv(j0, 12053)
        j1   == CMod(j0, 12053)
        jy1  == 979 + 33 * j_np + 4 * CDiv(j1, 1461)
        j2   == CMod(j1, 1461)
        jy2  == IF j2 >= 366 THEN jy1 + CDiv(j2 - 1, 365) ELSE jy1
        j3   == IF j2 >= 366 THEN CMod(j2 - 1, 365) ELSE j2
        w    == JalaliMonthWalk(0, j3)
    IN  [jy |-> jy2, jm |-> w.i + 1, jd |-> w.j_day_no + 1]

(* IsMidnight without the test of micros.                                  *)
IsMidnightIgnoringMicros(hour, minute, second, micros) ==
    hour = 0 /\ minute = 0 /\ second = 0

(* hour == 0 && minute == 0 && second == 0 && micros == 0                  *)
IsMidnight(hour, minute, second, micros) ==
    hour = 0 /\ minute = 0 /\ second = 0 /\ micros = 0

BufferSize == 25

(* snprintf(buffer, sizeof(buffer), ...) keeps at most sizeof - 1 chars.   *)
Snprintf(s) == SubSeq(s, 1, Min(Len(s), BufferSize - 1))

FormatJalali(j, ts) ==
    LET date == Fmt(j.jy, 4) \o <<"-">> \o Fmt(j.jm, 2) \o <<"-">> \o Fmt(j.jd, 2)
    IN  IF IsMidnight(ts.hour, ts.minute, ts.second, ts.micros)
        THEN Snprintf(date)
        ELSE Snprintf(date \o <<" ">> \o Fmt(ts.hour, 2) \o <<":">>
                      \o Fmt(ts.minute, 2) \o <<":">> \o Fmt(ts.second, 2))

(* The call's outcome: the Jalali fields it computed and the string it     *)
(* returns.                                                                *)
GregorianToJalali(ts) ==
    LET j == JalaliFromDayNo(GregorianDayNo(ts.year, ts.month, ts.day))
    IN  [kind |-> "ok", jy |-> j.jy, jm |-> j.jm, jd |-> j.jd,
         out |-> FormatJalali(j, ts)]


----------------------------------------------------------------------------
(* The Jalali calendar the conversions are measured against: months 1-6    *)
(* have 31 days, months 7-11 have 30, month 12 has 30 in a leap year of    *)
(* the 33-year cycle and 29 otherwise.                                     *)

RefJalaliLeap(y) == ((y - 979) % 33) \in {0, 4, 8, 12, 16, 20, 24, 28}

RefJalaliMonthLen(y, m) ==
    IF m <= 6 THEN 31
    ELSE IF m <= 11 THEN 30
    ELSE IF RefJalaliLeap(y) THEN 30 ELSE 29

RefGregorianLeap(y) == (y % 400 = 0) \/ (y % 4 = 0 /\ y % 100 # 0)

RefGregorianMonthLen(y, m) ==
    IF m = 2 THEN (IF RefGregorianLeap(y) THEN 29 ELSE 28)
    ELSE IF m \in {4, 6, 9, 11} THEN 30 ELSE 31

----------------------------------------------------------------------------
(* Inputs.                                                                 *)

(* Jalali years 979 .. 979 + MaxJalaliYears are explored day by day, and   *)
(* PreEpochYears years before 979.                                         *)
MaxJalaliYears == 135

PreEpochYears == 2

(* Gregorian years 1600 - PreAnchorYears .. 1600 + MaxGregorianYears.      *)
PreAnchorYears == 2

MaxGregorianYears == 140

(* Day numbers 0 .. MaxDayNo counted from 1600-01-01: more than one        *)
(* 400-year cycle of 146097 days.                                          *)
MaxDayNo == 146500

(* Jalali years around the Gregorian century years 1700, 2000 and 2100.    *)
CenturyJalaliYears == {1078, 1079, 1378, 1379, 1400, 1403, 1478, 1479}

DateStr(y, m, d) == Fmt(y, 4) \o <<"-">> \o Fmt(m, 2) \o <<"-">> \o Fmt(d, 2)

(* The valid Jalali dates of a set of years.                                *)
JalaliDatesOf(years) ==
    {t \in years \X (1..12) \X (1..31) : t[3] <= RefJalaliMonthLen(t[1], t[2])}

ValidJalaliDates ==
    JalaliDatesOf(((979 - PreEpochYears)..(979 + MaxJalaliYears))
                  \cup CenturyJalaliYears)

(* Dates whose month or day is outside the calendar.                       *)
OutOfRangeDates ==
    {t \in {979, 1400, 1403} \X {0, 1, 7, 12, 13, 14} \X {0, 1, 30, 31, 32, 40} :
        ~(t[2] \in 1..12 /\ t[3] \in 1..RefJalaliMonthLen(t[1], t[2]))}

SampleDates == {<<979, 1, 1>>, <<1400, 1, 1>>, <<1403, 12, 30>>, <<1399, 6, 31>>}

(* Time parts: none, HH:MM, HH:MM:SS, one field, four fields, one digit.   *)
TimeParts ==
    {<<>>,
     <<" ", "1", "2", ":", "3", "0">>,
     <<" ", "0", "0", ":", "0", "0">>,
     <<" ", "1", "2", ":", "3", "0", ":", "4", "5">>,
     <<" ", "2", "3", ":", "5", "9", ":", "5", "8">>,
     <<" ", "0", "0", ":", "0", "0", ":", "0", "1">>,
     <<" ", "7", ":", "5">>,
     <<" ", "7", ":", "5", ":", "9">>,
     <<" ", "1", "2">>,
     <<" ", "1", "2", ":", "3", "0", ":", "4", "5", ":", "9", "9">>,
     <<" ", "1", "2", ":", "3", "0", ":">>,
     <<" ", "1", "2", ":", "x", "y">>}

(* Strings whose date portion is not three fields, or not three integers.  *)
MalformedInputs ==
    {<<>>,
     <<" ">>,
     <<"1", "4", "0", "0">>,
     <<"1", "4", "0", "0", "-", "0", "1">>,
     <<"1", "4", "0", "0", "-", "0", "1", "-">>,
     <<"1", "4", "0", "0", "-", "0", "1", "-", "0", "1", "-">>,
     <<"1", "4", "0", "0", "-", "0", "1", "-", "0", "1", "-", "0", "5">>,
     <<"1", "4", "0", "0", "-", "-", "0", "1">>,
     <<"-", "1", "4", "0", "0", "-", "0", "1", "-", "0", "1">>,
     <<"1", "4", "0", "0", "-", "0", "1", " ", "1", "2", ":", "3", "0">>,
     <<" ", "1", "2", ":", "3", "0">>,
     <<"1", "4", "0", "0", "-", "x", "-", "0", "1">>,
     <<"1", "4", "0", "0", "/", "0", "1", "/", "0", "1">>}

(* Date fields written without padding.                                    *)
UnpaddedInputs ==
    {<<"1", "4", "0", "0", "-", "1", "-", "1">>,
     <<"1", "4", "0", "0", "-", "7", "-", "9", " ", "7", ":", "5">>}

(* (string, end_of_day) pairs given to JalaliToGregorian.                  *)
JalaliInputs ==
    {<<DateStr(t[1], t[2], t[3]), FALSE>> : t \in ValidJalaliDates}
    \cup {<<DateStr(t[1], t[2], t[3]), e>> : t \in OutOfRangeDates, e \in BOOLEAN}
    \cup {<<DateStr(t[1], t[2], t[3]) \o tp, e>> :
             t \in SampleDates, tp \in TimeParts, e \in BOOLEAN}
    \cup {<<x, e>> : x \in MalformedInputs \cup UnpaddedInputs, e \in BOOLEAN}

(* "978-1-<jd>": no field is range-checked, so the day field alone reaches *)
(* every day number n >= 0 (n = jd - 287).                                 *)
DayNoInput(n) == <<"9", "7", "8", "-", "1", "-">> \o AbsDigits(n + 287)

DayNoInputs == {<<DayNoInput(n), FALSE>> : n \in 0..MaxDayNo}

GregorianDatesOf(years) ==
    {t \in years \X (1..12) \X (1..31) : t[3] <= RefGregorianMonthLen(t[1], t[2])}

TimeSamples ==
    {<<0, 0, 0, 0>>, <<0, 0, 0, 1>>, <<0, 0, 1, 0>>, <<0, 1, 0, 0>>,
     <<1, 0, 0, 0>>, <<12, 30, 45, 0>>, <<7, 5, 9, 500000>>,
     <<23, 59, 59, 999999>>}

GregorianSampleDates ==
    {<<1600, 2, 29>>, <<1600, 3, 19>>, <<1600, 3, 20>>, <<1600, 12, 31>>,
     <<1599, 12, 31>>, <<2021, 3, 21>>, <<2000, 2, 29>>, <<2100, 3, 1>>}

MakeTimestamp(d, t) ==
    [year |-> d[1], month |-> d[2], day |-> d[3], hour |-> t[1],
     minute |-> t[2], second |-> t[3], micros |-> t[4]]

(* Timestamps given to GregorianToJalali.                                  *)
GregorianInputs ==
    {MakeTimestamp(d, <<0, 0, 0, 0>>) :
        d \in GregorianDatesOf((1600 - PreAnchorYears)..(1600 + MaxGregorianYears))}
    \cup {MakeTimestamp(d, t) : d \in GregorianSampleDates, t \in TimeSamples}

----------------------------------------------------------------------------
(* The state machine: one call, then the call of the other direction on    *)
(* its result.                                                             *)

NoTimestamp == MakeTimestamp(<<0, 0, 0>>, <<0, 0, 0, 0>>)

NoJ2G == J2GError("none")

NoG2J == [kind |-> "none", jy |-> 0, jm |-> 0, jd |-> 0, out |-> <<>>]

InitWith(inputs) ==
    /\ pc = "j2g"
    /\ \E i \in inputs : jalali_datetime = i[1] /\ end_of_day = i[2]
    /\ gregorian_timestamp = NoTimestamp
    /\ j2g = NoJ2G
    /\ g2j = NoG2J

Init == InitWith(JalaliInputs)

InitDayNo == InitWith(DayNoInputs)

InitG2J ==
    /\ pc = "g2j"
    /\ jalali_datetime = <<>>
    /\ end_of_day = FALSE
    /\ gregorian_timestamp \in GregorianInputs
    /\ j2g = NoJ2G
    /\ g2j = NoG2J

(* jalali_to_gregorian(jalali_datetime, end_of_day)                        *)
JalaliToGregorianCall ==
    /\ pc = "j2g"
    /\ \E o \in JalaliToGregorian(jalali_datetime, end_of_day) : j2g' = o
    /\ pc' = "j2g_done"
    /\ UNCHANGED <<jalali_datetime, end_of_day, gregorian_timestamp, g2j>>

(* gregorian_to_jalali of the timestamp the call returned.                 *)
GregorianToJalaliBack ==
    /\ pc = "j2g_done"
    /\ j2g.kind = "ok"
    /\ gregorian_timestamp' = Timestamp(j2g)
    /\ g2j' = GregorianToJalali(Timestamp(j2g))
    /\ pc' = "j2g2j"
    /\ UNCHANGED <<jalali_datetime, end_of_day, j2g>>

(* gregorian_to_jalali(gregorian_timestamp)                                *)
GregorianToJalaliCall ==
    /\ pc = "g2j"
    /\ g2j' = GregorianToJalali(gregorian_timestamp)
    /\ pc' = "g2j_done"
    /\ UNCHANGED <<jalali_datetime, end_of_day, gregorian_timestamp, j2g>>

(* jalali_to_gregorian(<the string returned>, false)                       *)
JalaliToGregorianBack ==
    /\ pc = "g2j_done"
    /\ jalali_datetime' = g2j.out
    /\ \E o \in JalaliToGregorian(g2j.out, FALSE) : j2g' = o
    /\ pc' = "g2j2g"
    /\ UNCHANGED <<end_of_day, gregorian_timestamp, g2j>>

Next == JalaliToGregorianCall \/ GregorianToJalaliBack

NextG2J == GregorianToJalaliCall \/ JalaliToGregorianBack

Spec == Init /\ [][Next]_vars

SpecDayNo == InitDayNo /\ [][Next]_vars

SpecG2J == InitG2J /\ [][NextG2J]_vars


----------------------------------------------------------------------------
(* Reading the inputs and counting days, for the properties below.         *)

AllDigits(f) == f # <<>> /\ \A i \in 1..Len(f) : IsDigit(f[i])

HasSpace(s) == \E i \in 1..Len(s) : s[i] = " "

(* The text before the first space, and the text after it.                 *)
DatePortion(s) == Pieces(s, " ", <<>>)[1]

TimePortion(s) == SubSeq(s, Len(DatePortion(s)) + 2, Len(s))

(* The '-'-separated fields of the date portion, empty ones included.      *)
DateFields(s) == Pieces(DatePortion(s), "-", <<>>)

TimeFields(s) == Pieces(TimePortion(s), ":", <<>>)

HasIntegerDate(s) ==
    Len(DateFields(s)) = 3 /\ \A i \in 1..3 : AllDigits(DateFields(s)[i])

FieldValue(f) == DigitsValue(f, Len(f))

InputYear(s) == FieldValue(DateFields(s)[1])

InputMonth(s) == FieldValue(DateFields(s)[2])

InputDay(s) == FieldValue(DateFields(s)[3])

(* A date-only string naming a date of the Jalali calendar.                *)
IsValidJalaliDateOnly(s) ==
    /\ ~HasSpace(s)
    /\ HasIntegerDate(s)
    /\ InputMonth(s) \in 1..12
    /\ InputDay(s) \in 1..RefJalaliMonthLen(InputYear(s), InputMonth(s))

RECURSIVE RefJalaliMonthsBefore(_, _)
RefJalaliMonthsBefore(y, m) ==
    IF m <= 1 THEN 0
    ELSE RefJalaliMonthLen(y, m - 1) + RefJalaliMonthsBefore(y, m - 1)

RECURSIVE RefGregorianMonthsBefore(_, _)
RefGregorianMonthsBefore(y, m) ==
    IF m <= 1 THEN 0
    ELSE RefGregorianMonthLen(y, m - 1) + RefGregorianMonthsBefore(y, m - 1)

(* Days from 1 Farvardin of year a to 1 Farvardin of year b, counted year  *)
(* by year (negative when b < a).                                          *)
RefJalaliYearDays(a, b) ==
    IF a <= b
    THEN 365 * (b - a) + Cardinality({k \in a..(b - 1) : RefJalaliLeap(k)})
    ELSE -(365 * (a - b) + Cardinality({k \in b..(a - 1) : RefJalaliLeap(k)}))

RefGregorianYearDays(a, b) ==
    IF a <= b
    THEN 365 * (b - a) + Cardinality({k \in a..(b - 1) : RefGregorianLeap(k)})
    ELSE -(365 * (a - b) + Cardinality({k \in b..(a - 1) : RefGregorianLeap(k)}))

(* Days from Jalali 1400-01-01 to the Jalali date (y, m, d).               *)
RefDaysFromJalali1400(y, m, d) ==
    RefJalaliYearDays(1400, y) + RefJalaliMonthsBefore(y, m) + (d - 1)

(* Days from Gregorian 1600-01-01 to the Gregorian date (y, m, d).         *)
RefGregorianDayNo(y, m, d) ==
    RefGregorianYearDays(1600, y) + RefGregorianMonthsBefore(y, m) + (d - 1)

(* Days from Gregorian 2021-03-21 to the Gregorian date (y, m, d).         *)
RefDaysFromGregorian2021(y, m, d) ==
    RefGregorianDayNo(y, m, d) - RefGregorianDayNo(2021, 3, 21)

IsValidGregorianDate(y, m, d) ==
    m \in 1..12 /\ d \in 1..RefGregorianMonthLen(y, m)

TwoDigits(n) == <<DigitChars[(n \div 10) + 1], DigitChars[(n % 10) + 1]>>

FourDigits(n) == TwoDigits(n \div 100) \o TwoDigits(n % 100)


----------------------------------------------------------------------------
(* Properties.                                                             *)

J2GDone == pc \in {"j2g_done", "j2g2j"}

G2JDone == pc \in {"g2j_done", "g2j2g"}

(* C1: round trip Gregorian -> Jalali -> Gregorian.  For every valid       *)
(* Gregorian timestamp t at midnight, whatever its year,                   *)
(* JalaliToGregorian(GregorianToJalali(t), false) succeeds and returns t.  *)
C1_RoundTripFromGregorian ==
    (pc = "g2j2g" /\ gregorian_timestamp.hour = 0
        /\ gregorian_timestamp.minute = 0 /\ gregorian_timestamp.second = 0
        /\ gregorian_timestamp.micros = 0)
    => (j2g.kind = "ok" /\ Timestamp(j2g) = gregorian_timestamp)

(* The part of C1 the code satisfies: the round trip holds from            *)
(* 1600-03-20 on, the day the Jalali count of the code starts.             *)
RoundTripFromGregorianSinceOrigin ==
    (pc = "g2j2g" /\ gregorian_timestamp.hour = 0
        /\ gregorian_timestamp.minute = 0 /\ gregorian_timestamp.second = 0
        /\ gregorian_timestamp.micros = 0
        /\ RefGregorianDayNo(gregorian_timestamp.year, gregorian_timestamp.month,
                             gregorian_timestamp.day) >= 79)
    => (j2g.kind = "ok" /\ Timestamp(j2g) = gregorian_timestamp)

(* C2: GregorianToJalali of any valid Gregorian date, 1600-02-29 among     *)
(* them, computes a valid Jalali date: month in 1..12, day in 1..31 for    *)
(* months 1-6, 1..30 for months 7-11, 1..30 or 1..29 for month 12.         *)
C2_ValidJalaliDate ==
    G2JDone => (g2j.jm \in 1..12 /\ g2j.jd \in 1..RefJalaliMonthLen(g2j.jy, g2j.jm))

(* The part of C2 the code satisfies: dates from 1600-03-20 on.            *)
ValidJalaliDateSinceOrigin ==
    (G2JDone /\ RefGregorianDayNo(gregorian_timestamp.year, gregorian_timestamp.month,
                                  gregorian_timestamp.day) >= 79)
    => (g2j.jm \in 1..12 /\ g2j.jd \in 1..RefJalaliMonthLen(g2j.jy, g2j.jm))

(* C3: JalaliToGregorian of a date-only string with end_of_day = false     *)
(* returns midnight on the corresponding Gregorian date: 1400-01-01 gives  *)
(* 2021-03-21T00:00:00, and every valid Jalali date gives the date as many *)
(* days from 2021-03-21 as the Jalali date is from 1400-01-01.             *)
C3_ReferenceConversion ==
    (J2GDone /\ ~end_of_day /\ IsValidJalaliDateOnly(jalali_datetime))
    => /\ j2g.kind = "ok"
       /\ j2g.hour = 0 /\ j2g.minute = 0 /\ j2g.second = 0
       /\ IsValidGregorianDate(j2g.gy, j2g.gm, j2g.gd)
       /\ RefDaysFromGregorian2021(j2g.gy, j2g.gm, j2g.gd)
            = RefDaysFromJalali1400(InputYear(jalali_datetime),
                                    InputMonth(jalali_datetime),
                                    InputDay(jalali_datetime))

(* The part of C3 the code satisfies: Jalali years from 979 on, and the    *)
(* fixed point itself.                                                     *)
ReferenceConversionSinceEpoch ==
    (J2GDone /\ ~end_of_day /\ IsValidJalaliDateOnly(jalali_datetime)
        /\ InputYear(jalali_datetime) >= 979)
    => /\ j2g.kind = "ok"
       /\ j2g.hour = 0 /\ j2g.minute = 0 /\ j2g.second = 0
       /\ IsValidGregorianDate(j2g.gy, j2g.gm, j2g.gd)
       /\ RefDaysFromGregorian2021(j2g.gy, j2g.gm, j2g.gd)
            = RefDaysFromJalali1400(InputYear(jalali_datetime),
                                    InputMonth(jalali_datetime),
                                    InputDay(jalali_datetime))
       /\ (jalali_datetime = DateStr(1400, 1, 1)
            => (j2g.gy = 2021 /\ j2g.gm = 3 /\ j2g.gd = 21))


(* The time part is absent, HH:MM or HH:MM:SS.                             *)
HasPlainTimePart(s) ==
    \/ ~HasSpace(s)
    \/ /\ Len(TimeFields(s)) \in {2, 3}
       /\ \A i \in 1..Len(TimeFields(s)) : AllDigits(TimeFields(s)[i])

(* C4: end-of-day override.  When end_of_day is true and the input has no  *)
(* time part, an HH:MM or an HH:MM:SS time part, a call that returns does  *)
(* so with time-of-day 23:59:59 on the date the call with end_of_day =     *)
(* false returns for the same input, and it returns whenever that call     *)
(* does.                                                                   *)
C4_EndOfDayOverride ==
    (J2GDone /\ end_of_day /\ HasIntegerDate(jalali_datetime)
        /\ HasPlainTimePart(jalali_datetime))
    => \A o \in JalaliToGregorian(jalali_datetime, FALSE) :
          /\ o.kind = j2g.kind
          /\ o.kind = "ok" =>
                /\ j2g.hour = 23 /\ j2g.minute = 59 /\ j2g.second = 59
                /\ <<j2g.gy, j2g.gm, j2g.gd>> = <<o.gy, o.gm, o.gd>>

(* C4 happens: an input with an HH:MM:SS time part, end_of_day true, and   *)
(* the call has returned 23:59:59.                                         *)
C4_Witness ==
    /\ J2GDone /\ end_of_day /\ j2g.kind = "ok"
    /\ Len(TimeFields(jalali_datetime)) = 3 /\ HasSpace(jalali_datetime)
    /\ TimeFields(jalali_datetime)[1] = <<"1", "2">>
    /\ j2g.hour = 23 /\ j2g.second = 59

(* C5: format selection.  The string GregorianToJalali returns is the date *)
(* only, YYYY-MM-DD, exactly when hour, minute, second and microsecond are *)
(* all 0; otherwise it is the date, a space and HH:MM:SS with two digits   *)
(* per field and no microseconds.                                          *)
C5_FormatSelection ==
    G2JDone =>
        LET ts   == gregorian_timestamp
            date == Fmt(g2j.jy, 4) \o <<"-">> \o Fmt(g2j.jm, 2) \o <<"-">>
                    \o Fmt(g2j.jd, 2)
            midnight == ts.hour = 0 /\ ts.minute = 0 /\ ts.second = 0
                        /\ ts.micros = 0
        IN  /\ midnight <=> ~HasSpace(g2j.out)
            /\ midnight => g2j.out = date
            /\ ~midnight =>
                  g2j.out = date \o <<" ">> \o TwoDigits(ts.hour) \o <<":">>
                            \o TwoDigits(ts.minute) \o <<":">>
                            \o TwoDigits(ts.second)

(* C5 happens: only the microsecond is non-zero and the time is printed.   *)
C5_Witness ==
    /\ G2JDone
    /\ gregorian_timestamp.hour = 0 /\ gregorian_timestamp.minute = 0
    /\ gregorian_timestamp.second = 0 /\ gregorian_timestamp.micros = 1
    /\ gregorian_timestamp.year = 2021
    /\ g2j.out = DateStr(1400, 1, 1) \o <<" ", "0", "0", ":", "0", "0", ":", "0", "0">>

(* C6: malformed date input.  Every input whose date portion (the text     *)
(* before the first space) is not exactly three '-'-separated fields makes *)
(* JalaliToGregorian fail with FormatError and nothing else.               *)
C6_MalformedIsFormatError ==
    (J2GDone /\ Len(DateFields(jalali_datetime)) # 3) => j2g.kind = "FormatError"

(* The part of C6 the code satisfies: a non-empty input whose date portion *)
(* does not end in '-'.                                                    *)
MalformedIsFormatErrorUnlessEmptyOrTrailing ==
    (J2GDone /\ Len(DateFields(jalali_datetime)) # 3 /\ jalali_datetime # <<>>
        /\ DateFields(jalali_datetime)[Len(DateFields(jalali_datetime))] # <<>>)
    => j2g.kind = "FormatError"

(* C7: time-of-day with end_of_day = false.  No time part: 00:00:00.  A    *)
(* time part of two or more ':'-separated integer fields: the first is the *)
(* hour, the second the minute, and the third, whenever there is one, the  *)
(* second (0 when there is none); the date is the one the date portion     *)
(* alone gives.                                                            *)
C7_TimeOfDay ==
    (J2GDone /\ ~end_of_day /\ HasIntegerDate(jalali_datetime))
    => LET tf == TimeFields(jalali_datetime)
       IN  /\ ~HasSpace(jalali_datetime) =>
                (j2g.kind = "ok" =>
                    (j2g.hour = 0 /\ j2g.minute = 0 /\ j2g.second = 0))
           /\ (HasSpace(jalali_datetime) /\ Len(tf) >= 2
                 /\ \A i \in 1..Len(tf) : AllDigits(tf[i])) =>
                \A o \in JalaliToGregorian(DatePortion(jalali_datetime), FALSE) :
                    /\ o.kind = j2g.kind
                    /\ o.kind = "ok" =>
                         /\ j2g.hour = FieldValue(tf[1])
                         /\ j2g.minute = FieldValue(tf[2])
                         /\ j2g.second =
                               (IF Len(tf) >= 3 THEN FieldValue(tf[3]) ELSE 0)
                         /\ <<j2g.gy, j2g.gm, j2g.gd>> = <<o.gy, o.gm, o.gd>>

(* The part of C7 the code satisfies: time parts of two or three fields.   *)
TimeOfDayUpToThreeFields ==
    (J2GDone /\ ~end_of_day /\ HasIntegerDate(jalali_datetime))
    => LET tf == TimeFields(jalali_datetime)
       IN  /\ ~HasSpace(jalali_datetime) =>
                (j2g.kind = "ok" =>
                    (j2g.hour = 0 /\ j2g.minute = 0 /\ j2g.second = 0))
           /\ (HasSpace(jalali_datetime) /\ Len(tf) \in {2, 3}
                 /\ \A i \in 1..Len(tf) : AllDigits(tf[i])) =>
                \A o \in JalaliToGregorian(DatePortion(jalali_datetime), FALSE) :
                    /\ o.kind = j2g.kind
                    /\ o.kind = "ok" =>
                         /\ j2g.hour = FieldValue(tf[1])
                         /\ j2g.minute = FieldValue(tf[2])
                         /\ j2g.second =
                               (IF Len(tf) >= 3 THEN FieldValue(tf[3]) ELSE 0)
                         /\ <<j2g.gy, j2g.gm, j2g.gd>> = <<o.gy, o.gm, o.gd>>

(* The day number C8 names, with y = year - 979 and floor division.        *)
C8DayNo(year, m, d) ==
    LET y == year - 979
        before == IF m <= 1 THEN 0
                  ELSE IF m <= 7 THEN 31 * (m - 1)
                  ELSE 31 * 6 + 30 * (m - 7)
    IN  365 * y + (y \div 33) * 8 + (((y % 33) + 3) \div 4) + before + (d - 1) + 79

(* C8: no range validation.  Every input whose date portion is three       *)
(* integer fields, whatever the month and the day, is accepted, and the    *)
(* date returned is the Gregorian date C8DayNo days from 1600-01-01.       *)
C8_NoRangeValidation ==
    (J2GDone /\ HasIntegerDate(jalali_datetime) /\ ~HasSpace(jalali_datetime))
    => /\ j2g.kind = "ok"
       /\ IsValidGregorianDate(j2g.gy, j2g.gm, j2g.gd)
       /\ RefGregorianDayNo(j2g.gy, j2g.gm, j2g.gd)
            = C8DayNo(InputYear(jalali_datetime), InputMonth(jalali_datetime),
                      InputDay(jalali_datetime))

(* The part of C8 the code satisfies: day numbers that are not negative,   *)
(* which every year from 979 on gives.                                     *)
NoRangeValidationSinceEpoch ==
    (J2GDone /\ HasIntegerDate(jalali_datetime) /\ ~HasSpace(jalali_datetime)
        /\ InputYear(jalali_datetime) >= 979)
    => /\ j2g.kind = "ok"
       /\ IsValidGregorianDate(j2g.gy, j2g.gm, j2g.gd)
       /\ RefGregorianDayNo(j2g.gy, j2g.gm, j2g.gd)
            = C8DayNo(InputYear(jalali_datetime), InputMonth(jalali_datetime),
                      InputDay(jalali_datetime))

(* C9: every day number n in 0..MaxDayNo counted from 1600-01-01 is        *)
(* decomposed (the call on "978-1-<n + 287>" works on day number n): the   *)
(* decomposition ends with a month in 1..12 and a day within that month of *)
(* year gy, the leap flag is the Gregorian leap-year predicate of gy, and  *)
(* the day-number formula of GregorianToJalali gives n back.               *)
C9_DayNoDecomposition ==
    J2GDone
    => /\ j2g.g_day_no >= 0
       /\ jalali_datetime = DayNoInput(j2g.g_day_no)
       /\ j2g.kind = "ok"
       /\ j2g.gm \in 1..12
       /\ j2g.gd \in 1..RefGregorianMonthLen(j2g.gy, j2g.gm)
       /\ j2g.leap = IsLeapYear(j2g.gy)
       /\ GregorianDayNo(j2g.gy, j2g.gm, j2g.gd) = j2g.g_day_no

(* C9 happens: day 146156 is 2000-02-29, in the second 400-year cycle.     *)
C9_Witness ==
    /\ J2GDone
    /\ j2g.g_day_no = 146097 + 59
    /\ j2g.gy = 2000 /\ j2g.gm = 2 /\ j2g.gd = 29 /\ j2g.leap

(* C10: round trip Jalali -> Gregorian -> Jalali.  For every valid Jalali  *)
(* date from year 979 on, given as a date-only string, JalaliToGregorian   *)
(* with end_of_day = false succeeds and GregorianToJalali of its result is *)
(* the same date as zero-padded YYYY-MM-DD.                                *)
C10_RoundTripFromJalali ==
    (~end_of_day /\ IsValidJalaliDateOnly(jalali_datetime)
        /\ InputYear(jalali_datetime) >= 979)
    => /\ J2GDone => j2g.kind = "ok"
       /\ pc = "j2g2j" =>
            g2j.out = FourDigits(InputYear(jalali_datetime)) \o <<"-">>
                      \o TwoDigits(InputMonth(jalali_datetime)) \o <<"-">>
                      \o TwoDigits(InputDay(jalali_datetime))

(* C10 happens: the leap day 1403-12-30 has made the round trip.           *)
C10_Witness ==
    /\ pc = "j2g2j" /\ ~end_of_day
    /\ jalali_datetime = DateStr(1403, 12, 30)
    /\ g2j.out = jalali_datetime
    /\ j2g.gy = 2025 /\ j2g.gm = 3 /\ j2g.gd = 20

====
